---------------------------- MODULE Spec2Model ----------------------------
(***************************************************************************)
(* A model of the KYLO audit engine (kylo/auditor.py): the intent          *)
(* extractor, the rule-based analyzer, the alignment checker, the          *)
(* deep-analysis hook merge, and the scan orchestrator with its persisted  *)
(* state file; and of the relay server (server/proxy.py) with its          *)
(* per-client hourly request counter kept in Redis.                        *)
(*                                                                         *)
(* Text is a sequence of one-character strings, so that lower-casing,      *)
(* tokenisation and substring search are computed as the code computes     *)
(* them.  A path is a sequence of segments whose last segment, for a file, *)
(* is the suffix of its name (<<"d", "b", ".py">> is d/b.py).              *)
(***************************************************************************)
EXTENDS Integers, Sequences, FiniteSets, Bags, TLC

VARIABLES
    fs,         \* file system: each source path -> id of its content, or "absent"
    readme,     \* id of the content of <cwd>/README.md, or "absent"
    env,        \* value of KYLO_FORCE_GEMINI in the environment, or "unset"
    stateFile,  \* content of <cwd>/.kylo/state.json
    now,        \* reading of time.time(), one tick per operation
    last,       \* what the last operation did and returned
    everScanned,\* paths targeted by scans since the state file was last valid and empty
    fn_in,      \* inputs of a direct audit_file call
    fn_out,     \* its result
    PROXY_KEY,  \* the relay has a provider key (GEMINI_API_KEY is set)
    redis_client,\* "connected" when REDIS_URL is set, else "none"
    redis_db,   \* the Redis keys: for each, its count and the time it expires
    wall,       \* the relay's clock, in ticks
    reqs        \* the bag of /v1/analyze requests received, each with where it is in its handler

auditVars == <<fs, readme, env, stateFile, now, last, everScanned, fn_in, fn_out>>

proxyVars == <<PROXY_KEY, redis_client, redis_db, wall, reqs>>

vars == <<auditVars, proxyVars>>

---------------------------------------------------------------------------
\* Bounds of the model.

\* Operations (scans, initialisations) in one behaviour.
MaxClock == 3

\* Length of the source text drawn for a direct audit_file call.
MaxTextLen == 3

---------------------------------------------------------------------------
\* Characters and strings.

UPPERCASE ==
    <<"A", "B", "C", "D", "E", "F", "G", "H", "I", "J", "K", "L", "M",
      "N", "O", "P", "Q", "R", "S", "T", "U", "V", "W", "X", "Y", "Z">>

LOWERCASE ==
    <<"a", "b", "c", "d", "e", "f", "g", "h", "i", "j", "k", "l", "m",
      "n", "o", "p", "q", "r", "s", "t", "u", "v", "w", "x", "y", "z">>

Letters == {UPPERCASE[i] : i \in DOMAIN UPPERCASE} \cup {LOWERCASE[i] : i \in DOMAIN LOWERCASE}

\* str.lower() on one character.
lower_char(c) ==
    IF \E i \in DOMAIN UPPERCASE : UPPERCASE[i] = c
    THEN LOWERCASE[CHOOSE i \in DOMAIN UPPERCASE : UPPERCASE[i] = c]
    ELSE c

\* str.lower().
lower(t) == [i \in 1..Len(t) |-> lower_char(t[i])]

\* `k in t` on strings: k occurs in t as a contiguous run.
contains(k, t) ==
    \E i \in 0..(Len(t) - Len(k)) : \A j \in 1..Len(k) : t[i + j] = k[j]

\* re.findall(r"[A-Za-z]+", t): the maximal runs of letters, left to right.
findall_alpha(t) ==
    LET starts == {i \in 1..Len(t) : t[i] \in Letters /\ (i = 1 \/ t[i - 1] \notin Letters)}
        stop(i) == CHOOSE j \in i..Len(t) :
                       /\ \A k \in i..j : t[k] \in Letters
                       /\ (j = Len(t) \/ t[j + 1] \notin Letters)
        nth(n) == CHOOSE i \in starts : Cardinality({k \in starts : k <= i}) = n
    IN  [n \in 1..Cardinality(starts) |-> SubSeq(t, nth(n), stop(nth(n)))]

---------------------------------------------------------------------------
\* Intent extractor.

STOPWORDS ==
    { <<"t", "h", "e">>, <<"a", "n", "d">>, <<"o", "r">>, <<"t", "o">>, <<"a">>,
      <<"o", "f">>, <<"i", "n">>, <<"f", "o", "r">>, <<"i", "s">>,
      <<"w", "i", "t", "h">>, <<"o", "n">>, <<"t", "h", "a", "t">>,
      <<"t", "h", "i", "s">> }

\* The cap on the number of keywords.
KeywordCap == 20

\* The loop of _extract_readme_keywords: first occurrences, in order, until
\* KeywordCap of them are collected.
RECURSIVE unique_capped(_, _, _)
unique_capped(ws, i, out) ==
    IF i > Len(ws) THEN out
    ELSE IF \E j \in 1..Len(out) : out[j] = ws[i]
         THEN unique_capped(ws, i + 1, out)
         ELSE LET o2 == Append(out, ws[i])
              IN  IF Len(o2) >= KeywordCap THEN o2 ELSE unique_capped(ws, i + 1, o2)

\* A README: [exists, text].
extract_readme_keywords(doc) ==
    IF ~doc.exists THEN <<>>
    ELSE LET words == findall_alpha(lower(doc.text))
             keywords == SelectSeq(words, LAMBDA w : w \notin STOPWORDS)
         IN  unique_capped(keywords, 1, <<>>)

---------------------------------------------------------------------------
\* Rule-based analyzer.
\*
\* A parsed source is the sequence of its Call nodes in document order; a Call
\* node is [func, lineno, args, inner]: func is [kind, name] (kind "Name" with
\* the identifier, "Attribute" with the final attribute, or "Other"), args the
\* positional arguments, each [kind, lineno, left, right] (left and right are
\* the node kinds of a BinOp's operands), and inner the Call nodes nested in
\* the node's fields, in field order.

N_eval == <<"e", "v", "a", "l">>

N_exec == <<"e", "x", "e", "c">>

N_execute == <<"e", "x", "e", "c", "u", "t", "e">>

N_executemany == <<"e", "x", "e", "c", "u", "t", "e", "m", "a", "n", "y">>

\* The issue of the dynamic-execution rule.
eval_issue(node, path) ==
    [file |-> path, line |-> node.lineno, severity |-> "high",
     message |-> IF node.func.name = N_eval
                 THEN "Use of eval() can be dangerous."
                 ELSE "Use of exec() can be dangerous.",
     suggestion |-> "Avoid eval/exec; use safe parsers or restricted execution."]

\* The issue of the f-string rule.
fstring_issue(first, path) ==
    [file |-> path, line |-> first.lineno, severity |-> "critical",
     message |-> "SQL query constructed with f-string",
     suggestion |-> "Use parameterized queries instead of f-strings."]

\* The issue of the concatenation rule.
concat_issue(first, path) ==
    [file |-> path, line |-> first.lineno, severity |-> "high",
     message |-> "SQL query built via string concatenation",
     suggestion |-> "Use parameterized queries instead."]

\* The issues visit_Call appends for one node, before it visits the node's children.
visit_Call_own(node, path) ==
    LET dyn == IF node.func.kind = "Name" /\ node.func.name \in {N_eval, N_exec}
               THEN <<eval_issue(node, path)>> ELSE <<>>
        named == node.func.kind \in {"Attribute", "Name"}
        query == /\ named
                 /\ lower(node.func.name) \in {N_execute, N_executemany}
                 /\ node.args # <<>>
        first == node.args[1]
        fstr == IF query /\ first.kind = "JoinedStr"
                THEN <<fstring_issue(first, path)>> ELSE <<>>
        cat == IF query /\ first.kind = "BinOp" /\ (first.left = "Str" \/ first.right = "Str")
               THEN <<concat_issue(first, path)>> ELSE <<>>
    IN  dyn \o fstr \o cat

\* Visitor().visit(tree): each Call node's own issues, then generic_visit of its
\* children, over the nodes in document order.
RECURSIVE visit(_, _)
visit(calls, path) ==
    IF calls = <<>> THEN <<>>
    ELSE visit_Call_own(Head(calls), path)
         \o visit(Head(calls).inner, path)
         \o visit(Tail(calls), path)

---------------------------------------------------------------------------
\* Alignment checker.

\* The number of missing keywords an alignment issue reports.
SampleSize == 5

\* missing[:5]
take(s, n) == SubSeq(s, 1, IF Len(s) < n THEN Len(s) ELSE n)

\* The mutant of alignment: the source text is searched as written, not lowercased.
alignment_case_sensitive(text, path, readme_keywords) ==
    IF readme_keywords = <<>> THEN <<>>
    ELSE LET missing == SelectSeq(readme_keywords, LAMBDA k : ~contains(k, text))
         IN  IF missing = <<>> THEN <<>>
             ELSE <<[file |-> path, severity |-> "medium",
                     message |-> "Potential misalignment with README goals.",
                     details |-> [missing_keywords_sample |-> take(missing, SampleSize)]]>>

\* alignment_issues of audit_file.
alignment(text, path, readme_keywords) ==
    IF readme_keywords = <<>> THEN <<>>
    ELSE LET text_lower == lower(text)
             missing == SelectSeq(readme_keywords, LAMBDA k : ~contains(k, text_lower))
         IN  IF missing = <<>> THEN <<>>
             ELSE <<[file |-> path, severity |-> "medium",
                     message |-> "Potential misalignment with README goals.",
                     details |-> [missing_keywords_sample |-> take(missing, SampleSize)]]>>

---------------------------------------------------------------------------
\* Deep-analysis hook.
\*
\* What one call of analyze_code_security does is [raises, items]: it raises, or
\* it returns items; an item is [mapping, fields]: a mapping with the fields
\* given, or a value that is no mapping (a string, a number, a list).

\* The mutant of getenv_force: the default is '1'.
getenv_force_default_on(e) == IF e = "unset" THEN "1" ELSE e

\* KYLO_FORCE_GEMINI as os.getenv reads it, '0' when unset.
getenv_force(e) == IF e = "unset" THEN "0" ELSE e

\* force of audit_file.
force_enabled(e) == getenv_force(e) = "1"

\* One record of the hook, tagged and given the file path if it has none.
tag_record(gi, path) == ([source |-> "gemini"] @@ gi) @@ [file |-> path]

\* The loop over gemini_issues: `gi['source'] = ...` raises on an item that is
\* no mapping, and the handler around the loop keeps what was appended so far.
RECURSIVE merge_loop(_, _, _, _)
merge_loop(merged, items, i, path) ==
    IF i > Len(items) THEN merged
    ELSE IF ~items[i].mapping THEN merged
         ELSE merge_loop(Append(merged, tag_record(items[i].fields, path)), items, i + 1, path)

\* The try block of audit_file.
merge_hook(merged, e, resp, path) ==
    IF ~force_enabled(e) THEN merged
    ELSE IF resp.raises THEN merged
         ELSE merge_loop(merged, resp.items, 1, path)

---------------------------------------------------------------------------
\* audit_file.
\*
\* A source is [parses, calls, text]: whether open/read/ast.parse succeed, the
\* Call nodes of the tree, and the text read.

parse_failure_issue(path) ==
    [severity |-> "error", message |-> "Failed to parse", file |-> path]

\* issues + alignment_issues.
local_issues(src, path, readme_keywords) ==
    visit(src.calls, path) \o alignment(src.text, path, readme_keywords)

\* The mutant of audit_file: the parse failure is recorded and the analysis goes on.
audit_file_parse_continues(path, src, readme_keywords, e, resp) ==
    IF ~src.parses
    THEN merge_hook(<<parse_failure_issue(path)>> \o alignment(src.text, path, readme_keywords),
                    e, resp, path)
    ELSE merge_hook(local_issues(src, path, readme_keywords), e, resp, path)

audit_file(path, src, readme_keywords, e, resp) ==
    IF ~src.parses THEN <<parse_failure_issue(path)>>
    ELSE merge_hook(local_issues(src, path, readme_keywords), e, resp, path)

\* Whether audit_file calls the hook.
hook_called(src, e) == src.parses /\ force_enabled(e)

---------------------------------------------------------------------------
\* The project tree and the contents its files can have.

\* The project root, os.getcwd().
Root == <<"/">>

SubDir == <<"/", "d">>

PyPaths == { <<"/", "a", ".py">>, <<"/", "d", "b", ".py">> }

\* The files of a directory, in listing order.
FilesIn(d) ==
    IF d = Root THEN << <<"/", "a", ".py">>, <<"/", "n", ".txt">> >>
    ELSE IF d = SubDir THEN << <<"/", "d", "b", ".py">> >>
    ELSE <<>>

\* The subdirectories of a directory, in listing order.
DirsIn(d) == IF d = Root THEN <<SubDir>> ELSE <<>>

Dirs == {Root, SubDir}

\* The paths a scan is asked for: the project root, a subdirectory, each source
\* file, a file that is no source file, and a path that does not exist.
TargetArgs == Dirs \cup PyPaths \cup { <<"/", "n", ".txt">>, <<"/", "x">> }

CleanText ==
    <<"i", "m", "p", "o", "r", "t", " ", "l", "o", "g", "\n", "u", "s", "e", "r", "s",
      " ", "=", " ", "5", "\n">>

RiskyText ==
    <<"d", "b", ".", "E", "x", "e", "c", "u", "t", "e", "(", "f", "\"", "{", "u", "s",
      "e", "r", "s", "}", "\"", ")", "\n", "e", "v", "a", "l", "(", "l", "o", "g", ")",
      "\n">>

BrokenText ==
    <<"d", "e", "f", " ", "b", "r", "o", "k", "e", "n", "(", ":", "\n">>

NoCalls == <<>>

\* db.Execute(f"{users}") on line 1, eval(log) on line 2.
RiskyCalls ==
    << [func |-> [kind |-> "Attribute", name |-> <<"E", "x", "e", "c", "u", "t", "e">>],
        lineno |-> 1,
        args |-> << [kind |-> "JoinedStr", lineno |-> 1, left |-> "", right |-> ""] >>,
        inner |-> <<>>],
       [func |-> [kind |-> "Name", name |-> N_eval],
        lineno |-> 2,
        args |-> << [kind |-> "Name", lineno |-> 2, left |-> "", right |-> ""] >>,
        inner |-> <<>>] >>

SourceIds == {"clean", "risky", "broken"}

\* What open(path).read() and ast.parse give for a file of each content.
Source(id) ==
    IF id = "clean" THEN [parses |-> TRUE, calls |-> NoCalls, text |-> CleanText]
    ELSE IF id = "risky" THEN [parses |-> TRUE, calls |-> RiskyCalls, text |-> RiskyText]
    ELSE [parses |-> FALSE, calls |-> NoCalls, text |-> BrokenText]

\* The template init_project writes.
README_TEMPLATE ==
    <<"#", " ", "P", "r", "o", "j", "e", "c", "t", " ", "R", "E", "A", "D", "M", "E",
      "\n", "\n", "P", "l", "e", "a", "s", "e", " ", "d", "e", "s", "c", "r", "i", "b",
      "e", " ", "y", "o", "u", "r", " ", "p", "r", "o", "j", "e", "c", "t", " ", "g",
      "o", "a", "l", "s", " ", "h", "e", "r", "e", ".", " ", "K", "y", "l", "o", " ",
      "w", "i", "l", "l", " ", "u", "s", "e", " ", "t", "h", "i", "s", " ", "t", "o",
      " ", "a", "l", "i", "g", "n", " ", "a", "u", "d", "i", "t", "i", "n", "g", " ",
      "r", "e", "s", "u", "l", "t", "s", " ", "w", "i", "t", "h", " ", "p", "r", "o",
      "j", "e", "c", "t", " ", "i", "n", "t", "e", "n", "t", ".", "\n">>

\* A README an operator wrote.
GoalsText ==
    <<"#", " ", "U", "s", "e", "r", "s", " ", "D", "B", " ", "a", "n", "d", " ", "t",
      "h", "e", " ", "l", "o", "g", "\n">>

ReadmeIds == {"absent", "template", "goals"}

\* <cwd>/README.md as os.path.exists and open(...).read() see it.
ReadmeDoc(id) ==
    IF id = "absent" THEN [exists |-> FALSE, text |-> <<>>]
    ELSE IF id = "template" THEN [exists |-> TRUE, text |-> README_TEMPLATE]
    ELSE [exists |-> TRUE, text |-> GoalsText]

EnvValues == {"unset", "0", "1"}

\* Records a deep-analysis provider may return: one with a severity and a line
\* and no file, one with an empty file path, a line of 0 and no severity.
ExtGood == [severity |-> "high", message |-> "external finding", line |-> 2]

ExtBare == [message |-> "external finding", file |-> <<>>, line |-> 0]

ItemGood == [mapping |-> TRUE, fields |-> ExtGood]

ItemBare == [mapping |-> TRUE, fields |-> ExtBare]

ItemText == [mapping |-> FALSE, fields |-> [message |-> "not a mapping"]]

\* What a call of the hook can do, by name: raise (unreachable, no key, a
\* response that is no sequence), or return records.  "none": it is not called.
HookResponses == {"raises", "nothing", "one_good", "one_bare", "good_then_text"}

NoResponse == "none"

Response(id) ==
    IF id = "raises" THEN [raises |-> TRUE, items |-> <<>>]
    ELSE IF id = "one_good" THEN [raises |-> FALSE, items |-> <<ItemGood>>]
    ELSE IF id = "one_bare" THEN [raises |-> FALSE, items |-> <<ItemBare>>]
    ELSE IF id = "good_then_text" THEN [raises |-> FALSE, items |-> <<ItemGood, ItemText>>]
    ELSE [raises |-> FALSE, items |-> <<>>]

---------------------------------------------------------------------------
\* State store.
\*
\* The state file is [kind, files, generated]: kind "missing", "garbage" (not
\* JSON), "empty_object" ({}), "no_files" (a JSON object without `files`) or
\* "document"; files maps paths to ScanRecords [last_scanned, issues].

NoFiles == [p \in {} |-> 0]

StateKinds == {"missing", "garbage", "empty_object", "no_files", "document"}

\* utils.load_json: None for a file that is missing or does not parse, else the
\* value read.  The result is [falsy, has_files, files, generated].
load_json(sf) ==
    [falsy |-> sf.kind \in {"missing", "garbage", "empty_object"},
     has_files |-> sf.kind = "document",
     files |-> sf.files,
     generated |-> sf.generated]

\* utils.save_json: the file holds the document given.
save_json(st) ==
    [kind |-> IF st.has_files THEN "document" ELSE "no_files",
     files |-> st.files,
     generated |-> st.generated]

\* {"files": {}, "generated": time.time()}
empty_state(t) == [falsy |-> FALSE, has_files |-> TRUE, files |-> NoFiles, generated |-> t]

\* load_json(state_path) or {"files": {}, "generated": time.time()}
load_state(sf, t) == IF load_json(sf).falsy THEN empty_state(t) ELSE load_json(sf)

---------------------------------------------------------------------------
\* The keywords of each README and the result of audit_file on each input of
\* the model, computed once.

Keywords == [r \in ReadmeIds |-> extract_readme_keywords(ReadmeDoc(r))]

AuditResults ==
    [t \in PyPaths |-> [c \in SourceIds |-> [r \in ReadmeIds |-> [e \in EnvValues |->
        [h \in HookResponses \cup {NoResponse} |->
            audit_file(t, Source(c), Keywords[r], e, Response(h))]]]]]

---------------------------------------------------------------------------
\* Scan orchestrator.

\* os.path.isfile
isfile(files, p) ==
    \/ p \in PyPaths /\ files[p] # "absent"
    \/ \E d \in Dirs : \E i \in DOMAIN FilesIn(d) : FilesIn(d)[i] = p /\ p \notin PyPaths

\* str.endswith('.py')
endswith_py(p) == p # <<>> /\ p[Len(p)] = ".py"

\* The loop over os.walk(path): top-down, the matching files of a directory, then
\* its subdirectories; a path that is no directory yields nothing.
RECURSIVE walk(_, _)
RECURSIVE walk_dirs(_, _)
walk(files, d) ==
    IF d \notin Dirs THEN <<>>
    ELSE SelectSeq(FilesIn(d), LAMBDA f : isfile(files, f) /\ endswith_py(f))
         \o walk_dirs(files, DirsIn(d))

walk_dirs(files, ds) ==
    IF ds = <<>> THEN <<>> ELSE walk(files, Head(ds)) \o walk_dirs(files, Tail(ds))

\* targets of audit_path.
enumerate_targets(files, path) ==
    IF isfile(files, path) /\ endswith_py(path) THEN <<path>> ELSE walk(files, path)

\* The mutant of record_scan: the file's record replaces the whole mapping.
record_scan_alone(st, t, issues, time) ==
    [st EXCEPT !.files = (t :> [last_scanned |-> time, issues |-> issues])]

\* The mutant of record_scan: the new issues are added to the file's old ones.
record_scan_accumulating(st, t, issues, time) ==
    [st EXCEPT !.files =
        (t :> [last_scanned |-> time,
               issues |-> (IF t \in DOMAIN st.files THEN st.files[t].issues ELSE <<>>) \o issues])
        @@ @]

\* state['files'][t] = {"last_scanned": time.time(), "issues": issues}
record_scan(st, t, issues, time) ==
    [st EXCEPT !.files = (t :> [last_scanned |-> time, issues |-> issues]) @@ @]

\* The mutant of report_add: the summary counts the files with issues.
report_add_flagged(rep, t, issues) ==
    [scanned |-> Append(rep.scanned, [file |-> t, issues_count |-> Len(issues)]),
     summary |-> [files |-> rep.summary.files + 1,
                  issues |-> rep.summary.issues + (IF issues = <<>> THEN 0 ELSE 1)]]

\* report['scanned'].append(...); report['summary'][...] += ...
report_add(rep, t, issues) ==
    [scanned |-> Append(rep.scanned, [file |-> t, issues_count |-> Len(issues)]),
     summary |-> [files |-> rep.summary.files + 1,
                  issues |-> rep.summary.issues + Len(issues)]]

EmptyReport == [scanned |-> <<>>, summary |-> [files |-> 0, issues |-> 0]]

\* The loop over targets.  state['files'][t] raises when the loaded state has
\* no `files`; audit_file has by then run for t.  The result is [raised, state,
\* report, audits]; audits lists each audit_file call: its file, the content
\* read, what the hook did, and the issues returned.
RECURSIVE scan_loop(_, _, _, _, _, _, _, _)
scan_loop(targets, i, acc, files, rid, e, resps, time) ==
    IF i > Len(targets) THEN acc
    ELSE LET t == targets[i]
             issues == AuditResults[t][files[t]][rid][e][resps[t]]
             audits == Append(acc.audits,
                              [file |-> t, src |-> files[t], resp |-> resps[t],
                               called |-> hook_called(Source(files[t]), e),
                               issues |-> issues])
         IN  IF ~acc.state.has_files
             THEN [acc EXCEPT !.raised = TRUE, !.audits = audits]
             ELSE scan_loop(targets, i + 1,
                            [raised |-> FALSE,
                             state |-> record_scan(acc.state, t, issues, time),
                             report |-> report_add(acc.report, t, issues),
                             audits |-> audits],
                            files, rid, e, resps, time)

\* What the hook does for each target: a response where it is called.
HookChoices(targets, files, e) ==
    LET S == {targets[i] : i \in DOMAIN targets}
    IN  { r \in [S -> HookResponses \cup {NoResponse}] :
            \A t \in S : IF hook_called(Source(files[t]), e)
                         THEN r[t] \in HookResponses
                         ELSE r[t] = NoResponse }

\* audit_path, from its first line to the loop's end.
run_scan(path, files, rid, e, sf, resps, time) ==
    scan_loop(enumerate_targets(files, path), 1,
              [raised |-> FALSE, state |-> load_state(sf, time),
               report |-> EmptyReport, audits |-> <<>>],
              files, rid, e, resps, time)

---------------------------------------------------------------------------
\* Operations.

---------------------------------------------------------------------------
\* The relay server: configuration, Redis, requests.

\* Requests to /v1/analyze in one behaviour.
NumRequests == 3

\* RATE_LIMIT_PER_HOUR = int(os.getenv('KYLO_PROXY_RATE_LIMIT', '100'))
RATE_LIMIT_PER_HOUR == 2

\* Ticks of the relay's clock in one behaviour.
MaxWall == 2

\* An hour (3600 seconds) in ticks: the length of a window and the time a
\* counter lives after expire(key, 3600).
HOUR == 2

\* request.client.host of the clients.
Clients == {"10.0.0.1", "10.0.0.2"}

\* current_hour = int(time.time() / 3600)
current_hour(time) == time \div HOUR

\* key = f"rate_limit:{ip_address}:{current_hour}"
rate_limit_key(ip_address, hour) == <<"rate_limit", ip_address, hour>>

RedisKeys == {rate_limit_key(c, h) : c \in Clients, h \in 0..current_hour(MaxWall)}

\* A key that does not exist; expires_at = 0 is a key with no expiry.
NoKey == [count |-> 0, expires_at |-> 0]

\* A request as analyze is entered: no count yet, no reply yet.
NewRequest(ip_address, hour) ==
    [pc |-> IF redis_client = "none" THEN "analyze" ELSE "incr",
     ip |-> ip_address, hour |-> hour, current_count |-> 0, incr_hour |-> 0,
     redis_error |-> FALSE, status |-> 0, forwarded |-> FALSE]

\* The requests after one of them has moved on in its handler.
Step(req, next) == (reqs (-) SetToBag({req})) (+) SetToBag({next})

\* The requests in the state req.pc of their handler.
At(pc) == {req \in BagToSet(reqs) : req.pc = pc}

\* The mutant of over_limit: one request more than the limit passes.
over_limit_off_by_one(current_count) == current_count > RATE_LIMIT_PER_HOUR + 1

\* current_count > RATE_LIMIT_PER_HOUR
over_limit(current_count) == current_count > RATE_LIMIT_PER_HOUR

\* The rest of rate_limit_by_ip after its last Redis command: HTTPException 429
\* when the count is over the limit, else the handler goes on.
after_count(req) ==
    IF over_limit(req.current_count)
    THEN [req EXCEPT !.pc = "done", !.status = 429]
    ELSE [req EXCEPT !.pc = "analyze"]

\* except redis.exceptions.RedisError: the request is allowed to proceed.
after_redis_error(req) == [req EXCEPT !.pc = "analyze", !.redis_error = TRUE]

\* A server that has received nothing, with an empty Redis.
ProxyStart ==
    /\ redis_db = [k \in RedisKeys |-> NoKey]
    /\ wall = 0
    /\ reqs = EmptyBag

\* The relay is not part of the behaviour.
ProxyUnused ==
    /\ PROXY_KEY = FALSE
    /\ redis_client = "none"
    /\ ProxyStart

\* No operation has returned since the environment last changed.
Idle ==
    [op |-> "none", target |-> <<>>, readme |-> "absent", env |-> "unset",
     loaded |-> "missing", raised |-> FALSE, report |-> EmptyReport,
     targets |-> <<>>, audits |-> <<>>, repeat |-> FALSE, dropped |-> {}]

NoCall == [src |-> Source("clean"), keywords |-> <<>>]

NoResult == [done |-> FALSE, issues |-> <<>>]

\* The hook's response in each audit_file call of an operation.
Resps(l) == [i \in DOMAIN l.audits |-> l.audits[i].resp]

\* audit_path(path): the scan, then state['generated'] = time.time() and
\* save_json, which a raise in the loop skips.
AuditPath(path) ==
    /\ now < MaxClock
    /\ \E resps \in HookChoices(enumerate_targets(fs, path), fs, env) :
       \E r \in {run_scan(path, fs, readme, env, stateFile, resps, now)} :
         LET fresh == load_json(stateFile).falsy
         IN  /\ stateFile' = IF r.raised THEN stateFile
                             ELSE save_json([r.state EXCEPT !.generated = now])
             /\ everScanned' = IF r.raised THEN everScanned
                               ELSE (IF fresh THEN {} ELSE everScanned)
                                    \cup {r.audits[i].file : i \in DOMAIN r.audits}
             /\ last' = [op |-> "audit", target |-> path, readme |-> readme, env |-> env,
                         loaded |-> stateFile.kind, raised |-> r.raised,
                         report |-> r.report,
                         targets |-> enumerate_targets(fs, path),
                         audits |-> r.audits,
                         repeat |-> /\ last.op = "audit" /\ ~last.raised /\ ~r.raised
                                    /\ last.target = path
                                    /\ Resps(last) = [i \in DOMAIN r.audits |-> r.audits[i].resp],
                         dropped |-> {}]
    /\ now' = now + 1
    /\ UNCHANGED <<fs, readme, env, fn_in, fn_out>>
    /\ UNCHANGED proxyVars

\* The mutant of InitProject: the state file is written, like the README, only
\* when there is none to load.
InitProject_keeps_state ==
    /\ now < MaxClock
    /\ readme' = IF readme = "absent" THEN "template" ELSE readme
    /\ stateFile' = IF load_json(stateFile).falsy THEN save_json(empty_state(now))
                    ELSE stateFile
    /\ everScanned' = IF load_json(stateFile).falsy THEN {} ELSE everScanned
    /\ last' = [Idle EXCEPT !.op = "init", !.readme = readme, !.env = env,
                            !.loaded = stateFile.kind]
    /\ now' = now + 1
    /\ UNCHANGED <<fs, env, fn_in, fn_out>>
    /\ UNCHANGED proxyVars

\* init_project(cwd): the README template is written when there is no README,
\* and the state file is written with no files.
InitProject ==
    /\ now < MaxClock
    /\ readme' = IF readme = "absent" THEN "template" ELSE readme
    /\ stateFile' = save_json(empty_state(now))
    /\ everScanned' = {}
    /\ last' = [Idle EXCEPT !.op = "init", !.readme = readme, !.env = env,
                            !.loaded = stateFile.kind,
                            !.dropped = DOMAIN stateFile.files]
    /\ now' = now + 1
    /\ UNCHANGED <<fs, env, fn_in, fn_out>>
    /\ UNCHANGED proxyVars

\* A source file is written, rewritten or deleted.
WriteFile(p, c) ==
    /\ fs[p] # c
    /\ fs' = [fs EXCEPT ![p] = c]
    /\ last' = Idle
    /\ UNCHANGED <<readme, env, stateFile, now, everScanned, fn_in, fn_out>>
    /\ UNCHANGED proxyVars

\* The state file is deleted, or overwritten with something that is no
\* document with a `files` mapping.
DamageState(k) ==
    /\ k \in StateKinds \ {"document"}
    /\ stateFile.kind # k
    /\ stateFile' = [kind |-> k, files |-> NoFiles, generated |-> 0]
    /\ everScanned' = {}
    /\ last' = Idle
    /\ UNCHANGED <<fs, readme, env, now, fn_in, fn_out>>
    /\ UNCHANGED proxyVars

\* A project with its sources in place and never scanned; the README and
\* KYLO_FORCE_GEMINI are the operator's, set before the first operation.
Init ==
    /\ fs = [p \in PyPaths |-> "clean"]
    /\ readme \in ReadmeIds
    /\ env \in EnvValues
    /\ stateFile = [kind |-> "missing", files |-> NoFiles, generated |-> 0]
    /\ now = 1
    /\ last = Idle
    /\ everScanned = {}
    /\ fn_in = NoCall
    /\ fn_out = NoResult
    /\ ProxyUnused

Next ==
    \/ \E path \in TargetArgs : AuditPath(path)
    \/ InitProject
    \/ \E p \in PyPaths : \E c \in SourceIds \cup {"absent"} : WriteFile(p, c)
    \/ \E k \in StateKinds : DamageState(k)

Spec == Init /\ [][Next]_vars

---------------------------------------------------------------------------
\* audit_file called directly, as the tests call it, on a parsable source and a
\* keyword list, with the hook not enabled.

AlignAlphabet == {"a", "B", "b"}

\* The texts of at most MaxTextLen characters; each is a Python name or empty,
\* so it parses and has no Call node.
SmallTexts == UNION {[1..n -> AlignAlphabet] : n \in 0..MaxTextLen}

AlignSources ==
    {[parses |-> TRUE, calls |-> NoCalls, text |-> t] : t \in SmallTexts}
        \cup {Source("clean"), Source("risky")}

MasterKeywords ==
    << <<"b">>, <<"a", "b">>, <<"b", "a">>, <<"a", "a">>, <<"b", "b">>,
       <<"a", "b", "a">>, <<"b", "a", "b">> >>

Reverse(s) == [i \in 1..Len(s) |-> s[Len(s) + 1 - i]]

\* The n-th smallest element of a set of numbers.
NthOf(S, n) == CHOOSE i \in S : Cardinality({k \in S : k <= i}) = n

\* The elements of s at the indices in S, in the order of s.
Pick(s, S) == [n \in 1..Cardinality(S) |-> s[NthOf(S, n)]]

\* The keyword lists: the keywords of each README, and every selection of the
\* master list, in its order and in the reverse order.
KeywordLists ==
    {Keywords[r] : r \in ReadmeIds}
        \cup {Pick(MasterKeywords, S) : S \in SUBSET DOMAIN MasterKeywords}
        \cup {Pick(Reverse(MasterKeywords), S) : S \in SUBSET DOMAIN MasterKeywords}

AlignPath == <<"/", "a", ".py">>

\* audit_file(path, readme_keywords=keywords)
CallAuditFile ==
    /\ ~fn_out.done
    /\ fn_out' = [done |-> TRUE,
                  issues |-> audit_file(AlignPath, fn_in.src, fn_in.keywords, env,
                                        Response(NoResponse))]
    /\ UNCHANGED <<fs, readme, env, stateFile, now, last, everScanned, fn_in>>
    /\ UNCHANGED proxyVars

InitAlign ==
    /\ fs = [p \in PyPaths |-> "clean"]
    /\ readme = "absent"
    /\ env = "unset"
    /\ stateFile = [kind |-> "missing", files |-> NoFiles, generated |-> 0]
    /\ now = 1
    /\ last = Idle
    /\ everScanned = {}
    /\ fn_in \in [src : AlignSources, keywords : KeywordLists]
    /\ fn_out = NoResult
    /\ ProxyUnused

NextAlign == CallAuditFile

SpecAlign == InitAlign /\ [][NextAlign]_vars

---------------------------------------------------------------------------
\* audit_file called directly on a parsable source of one or two calls, with no
\* keywords and the hook not enabled.

\* The last line of a source.
MaxLine == 2

N_Execute == <<"E", "x", "e", "c", "u", "t", "e">>

N_run == <<"r", "u", "n">>

\* What a call's func can be: a bare name, an attribute access, or any other
\* expression (a subscript, a call).
CallFuncs ==
    [kind : {"Name", "Attribute"},
     name : {N_eval, N_execute, N_Execute, N_executemany, N_run}]
        \cup {[kind |-> "Other", name |-> <<>>]}

\* The first positional arguments: an f-string, a constant, a name, and a
\* binary operation with or without a string constant operand.
FirstArgs(from) ==
    [kind : {"JoinedStr", "Str", "Name"}, lineno : from..MaxLine, left : {""}, right : {""}]
        \cup [kind : {"BinOp"}, lineno : from..MaxLine, left : {"Str", "Name"}, right : {"Name"}]

\* A call that starts on line l; its first argument starts on that line or on
\* a later one.
CallsAt(l, inners) ==
    [func : CallFuncs, lineno : {l}, args : {<<>>} \cup {<<a>> : a \in FirstArgs(l)},
     inner : inners]

\* A query call whose argument holds the call next to it.
SecondCalls ==
    {[func |-> [kind |-> "Attribute", name |-> N_execute], lineno |-> l,
      args |-> <<[kind |-> k, lineno |-> MaxLine, left |-> "", right |-> ""]>>,
      inner |-> <<>>] : l \in 1..MaxLine, k \in {"JoinedStr", "Name"}}

CallNodes ==
    UNION {CallsAt(l, {<<>>} \cup {<<n>> : n \in {m \in SecondCalls : m.lineno >= l}})
             : l \in 1..MaxLine}

\* The parsed sources: one call, or one call followed by a query call.
CallSources ==
    {[parses |-> TRUE, calls |-> c, text |-> <<>>]
       : c \in {<<n>> : n \in CallNodes}
               \cup {<<n, m>> : n \in UNION {CallsAt(l, {<<>>}) : l \in 1..MaxLine},
                                m \in {k \in SecondCalls : k.lineno = MaxLine}}}

InitCalls ==
    /\ fs = [p \in PyPaths |-> "clean"]
    /\ readme = "absent"
    /\ env = "unset"
    /\ stateFile = [kind |-> "missing", files |-> NoFiles, generated |-> 0]
    /\ now = 1
    /\ last = Idle
    /\ everScanned = {}
    /\ fn_in \in [src : CallSources, keywords : {<<>>}]
    /\ fn_out = NoResult
    /\ ProxyUnused

NextCalls == CallAuditFile

SpecCalls == InitCalls /\ [][NextCalls]_vars

---------------------------------------------------------------------------
\* The relay server: the handler of POST /v1/analyze, one action per Redis
\* command and per call out; what lies between two of them runs without
\* interleaving in its worker.

\* analyze is entered and rate_limit_by_ip starts: it returns at once when
\* there is no Redis client, else it reads the client's address and the clock.
Receive(ip_address) ==
    /\ BagCardinality(reqs) < NumRequests
    /\ reqs' = reqs (+) SetToBag({NewRequest(ip_address, current_hour(wall))})
    /\ UNCHANGED <<PROXY_KEY, redis_client, redis_db, wall>>
    /\ UNCHANGED auditVars

\* current_count = redis_client.incr(key); the command is atomic in Redis, and
\* it answers or raises a RedisError (time-out, connection lost).
Incr(req) ==
    /\ req \in At("incr")
    /\ \E answered \in BOOLEAN :
       IF answered
       THEN LET key == rate_limit_key(req.ip, req.hour)
                n == redis_db[key].count + 1
                counted == [req EXCEPT !.current_count = n,
                                       !.incr_hour = current_hour(wall)]
            IN  /\ redis_db' = [redis_db EXCEPT ![key].count = n]
                /\ reqs' = Step(req, IF n = 1 THEN [counted EXCEPT !.pc = "expire"]
                                     ELSE after_count(counted))
       ELSE /\ reqs' = Step(req, after_redis_error(req))
            /\ UNCHANGED redis_db
    /\ UNCHANGED <<PROXY_KEY, redis_client, wall>>
    /\ UNCHANGED auditVars

\* redis_client.expire(key, 3600), by the request that counted 1.
Expire(req) ==
    /\ req \in At("expire")
    /\ \E answered \in BOOLEAN :
       IF answered
       THEN LET key == rate_limit_key(req.ip, req.hour)
            IN  /\ redis_db' = IF redis_db[key].count = 0 THEN redis_db
                               ELSE [redis_db EXCEPT ![key].expires_at = wall + HOUR]
                /\ reqs' = Step(req, after_count(req))
       ELSE /\ reqs' = Step(req, after_redis_error(req))
            /\ UNCHANGED redis_db
    /\ UNCHANGED <<PROXY_KEY, redis_client, wall>>
    /\ UNCHANGED auditVars

\* The rest of analyze: 503 without a provider key, else the provider call and
\* the reply that follows it (200, or 500 when the call or the parsing of its
\* answer fails; the model keeps one status for both).
Analyze(req) ==
    /\ req \in At("analyze")
    /\ reqs' = Step(req, IF ~PROXY_KEY
                         THEN [req EXCEPT !.pc = "done", !.status = 503]
                         ELSE [req EXCEPT !.pc = "done", !.status = 200,
                                          !.forwarded = TRUE])
    /\ UNCHANGED <<PROXY_KEY, redis_client, redis_db, wall>>
    /\ UNCHANGED auditVars

\* Time passes; Redis deletes the keys whose time has come.
Tick ==
    /\ wall < MaxWall
    /\ wall' = wall + 1
    /\ redis_db' = [k \in RedisKeys |->
                      IF redis_db[k].expires_at # 0 /\ redis_db[k].expires_at <= wall + 1
                      THEN NoKey ELSE redis_db[k]]
    /\ UNCHANGED <<PROXY_KEY, redis_client, reqs>>
    /\ UNCHANGED auditVars

InitProxy ==
    /\ fs = [p \in PyPaths |-> "clean"]
    /\ readme = "absent"
    /\ env = "unset"
    /\ stateFile = [kind |-> "missing", files |-> NoFiles, generated |-> 0]
    /\ now = 1
    /\ last = Idle
    /\ everScanned = {}
    /\ fn_in = NoCall
    /\ fn_out = NoResult
    /\ PROXY_KEY \in BOOLEAN
    /\ redis_client \in {"none", "connected"}
    /\ ProxyStart

NextProxy ==
    \/ \E ip_address \in Clients : Receive(ip_address)
    \/ \E req \in BagToSet(reqs) : Incr(req)
    \/ \E req \in BagToSet(reqs) : Expire(req)
    \/ \E req \in BagToSet(reqs) : Analyze(req)
    \/ Tick

SpecProxy == InitProxy /\ [][NextProxy]_vars

---------------------------------------------------------------------------
\* Properties of the scan.

\* The operation that has just returned is a scan.
Scanned == last.op = "audit"

\* It returned a Report.
Returned == Scanned /\ ~last.raised

TargetSet(l) == {l.targets[i] : i \in DOMAIN l.targets}

RECURSIVE SumCounts(_)
SumCounts(scanned) ==
    IF scanned = <<>> THEN 0 ELSE Head(scanned).issues_count + SumCounts(Tail(scanned))

\* C1: a Report that audit_path returns counts its scanned entries in
\* summary.files and the sum of their issues_count in summary.issues; it has
\* exactly one entry, and the state one ScanRecord, for each enumerated target,
\* and each entry's issues_count is the length of that ScanRecord's issues.
C1_ReportMatchesState ==
    Returned =>
        LET rep == last.report
        IN  /\ rep.summary.files = Len(rep.scanned)
            /\ rep.summary.issues = SumCounts(rep.scanned)
            /\ Len(rep.scanned) = Len(last.targets)
            /\ Cardinality(TargetSet(last)) = Len(last.targets)
            /\ \A i \in DOMAIN rep.scanned :
                 /\ rep.scanned[i].file = last.targets[i]
                 /\ rep.scanned[i].file \in DOMAIN stateFile.files
                 /\ rep.scanned[i].issues_count
                      = Len(stateFile.files[rep.scanned[i].file].issues)

\* A scan of the whole project has returned a Report of two files with issues.
C1_Witness ==
    /\ Returned
    /\ last.target = Root
    /\ last.report.summary.files = 2
    /\ last.report.summary.issues >= 3

\* A step is a scan that returns a Report.
ScanStep == last'.op = "audit" /\ ~last'.raised /\ now' = now + 1

\* C2: a scan that starts from a valid state file leaves it holding one
\* ScanRecord for every file targeted by this or an earlier scan: the targets'
\* records are written with the time of this scan, and the record of every
\* other path is the one the file held before, also for a path whose file no
\* longer exists.
C2_ScanReplacesOnlyTargets ==
    [][ (ScanStep /\ stateFile.kind = "document")
          => /\ stateFile'.kind = "document"
             /\ DOMAIN stateFile'.files = everScanned \cup TargetSet(last')
             /\ everScanned' = everScanned \cup TargetSet(last')
             /\ \A t \in TargetSet(last') : stateFile'.files[t].last_scanned = now
             /\ \A p \in DOMAIN stateFile.files \ TargetSet(last') :
                    stateFile'.files[p] = stateFile.files[p] ]_vars

\* A scan has returned and the state still holds, from an earlier scan, the
\* record of a file that has been deleted since.
C2_Witness ==
    /\ Returned
    /\ last.targets # <<>>
    /\ \E p \in DOMAIN stateFile.files :
         /\ p \notin TargetSet(last)
         /\ fs[p] = "absent"
         /\ stateFile.files[p].last_scanned < stateFile.generated

\* The hook's call failed: it raised, or an item it returned is no mapping.
HookFailed(h) ==
    \/ Response(h).raises
    \/ \E i \in DOMAIN Response(h).items : ~Response(h).items[i].mapping

\* The issues of the local producers for one audit_file call of the last scan:
\* the analyzer's, then the alignment checker's.
LocalOf(a) ==
    IF Source(a.src).parses
    THEN visit(Source(a.src).calls, a.file)
         \o alignment(Source(a.src).text, a.file, Keywords[last.readme])
    ELSE <<parse_failure_issue(a.file)>>

Untagged(issues) == \A j \in DOMAIN issues : "source" \notin DOMAIN issues[j]

\* C3: when the enabled hook fails (it raises, or merging its response fails
\* part-way), the result of audit_file is exactly the local issues and holds
\* no record of the hook.
C3_HookFailureKeepsLocal ==
    Scanned =>
        \A i \in DOMAIN last.audits :
            LET a == last.audits[i]
            IN  (a.called /\ HookFailed(a.resp))
                    => (a.issues = LocalOf(a) /\ Untagged(a.issues))

\* C4: a file that cannot be read or parsed gets exactly one issue, of severity
\* error, with nothing after it; no scan fails for it (a scan fails only when
\* the state file loaded has no `files`), and in a scan that returns every
\* target has its ScanRecord, holding what audit_file returned for it, and its
\* Report entry.
C4_ParseFailureIsOneError ==
    Scanned =>
        /\ \A i \in DOMAIN last.audits :
             LET a == last.audits[i]
             IN  ~Source(a.src).parses
                    => /\ Len(a.issues) = 1
                       /\ a.issues[1].severity = "error"
                       /\ a.issues[1].file = a.file
                       /\ Untagged(a.issues)
        /\ last.raised => last.loaded = "no_files"
        /\ ~last.raised =>
             /\ Len(last.audits) = Len(last.targets)
             /\ \A i \in DOMAIN last.targets :
                  /\ last.audits[i].file = last.targets[i]
                  /\ last.targets[i] \in DOMAIN stateFile.files
                  /\ stateFile.files[last.targets[i]].issues = last.audits[i].issues
                  /\ stateFile.files[last.targets[i]].last_scanned = stateFile.generated
                  /\ \E j \in DOMAIN last.report.scanned :
                        last.report.scanned[j].file = last.targets[i]

\* A scan of two files has returned: one does not parse, the other has issues.
C4_Witness ==
    /\ Returned
    /\ Len(last.audits) = 2
    /\ \E i, j \in DOMAIN last.audits :
         /\ last.audits[i].src = "broken"
         /\ last.audits[j].src = "risky"
         /\ Len(stateFile.files[last.audits[i].file].issues) = 1
         /\ Len(stateFile.files[last.audits[j].file].issues) >= 2

\* os.path.exists for a scan's target.
TargetExists(files, p) == p \in Dirs \/ isfile(files, p)

\* C5: a scan whose target path does not exist fails: it returns no Report.
C5_MissingTargetFails ==
    (Scanned /\ ~TargetExists(fs, last.target)) => last.raised

\* C6: a scan that finds the state file missing, unreadable or malformed
\* (also one that deserializes to no document with a `files` mapping) returns,
\* and the state it persists has exactly the targets of the scan as its files.
C6_BadStateTreatedAsEmpty ==
    (Scanned /\ last.loaded # "document")
        => /\ ~last.raised
           /\ stateFile.kind = "document"
           /\ DOMAIN stateFile.files = TargetSet(last)

\* C7: the hook is called only when KYLO_FORCE_GEMINI is '1'; in a scan where
\* it is not, no audit_file call calls the hook, and each returns exactly the
\* local issues (the analyzer's, then the alignment checker's), none of them
\* with a `source`.
C7_HookOnlyWhenEnabled ==
    Scanned =>
        \A i \in DOMAIN last.audits :
            LET a == last.audits[i]
            IN  /\ a.called => last.env = "1"
                /\ last.env # "1"
                     => /\ ~a.called
                        /\ a.resp = NoResponse
                        /\ a.issues = LocalOf(a)
                        /\ Untagged(a.issues)

\* A scan with the hook not enabled has audited a file with rule issues and an
\* alignment issue.
C7_Witness ==
    /\ Scanned
    /\ last.env \in {"unset", "0"}
    /\ \E i \in DOMAIN last.audits :
         /\ last.audits[i].src = "risky"
         /\ Len(last.audits[i].issues) = 3

\* An issue has a non-empty file and severity, and its line, if any, is >= 1.
WellFormed(issue) ==
    /\ "file" \in DOMAIN issue /\ issue.file # <<>>
    /\ "severity" \in DOMAIN issue /\ issue.severity # ""
    /\ "line" \in DOMAIN issue => issue.line >= 1

\* C8: every issue of every ScanRecord has a non-empty file and severity and
\* a line, if any, of at least 1, and every record merged from the hook has
\* the `source` tag of the hook.
C8_IssuesWellFormed ==
    /\ \A p \in DOMAIN stateFile.files :
         \A j \in DOMAIN stateFile.files[p].issues :
             WellFormed(stateFile.files[p].issues[j])
    /\ Scanned =>
         \A i \in DOMAIN last.audits :
             LET a == last.audits[i]
             IN  \A j \in DOMAIN a.issues :
                    j > Len(LocalOf(a)) =>
                        ("source" \in DOMAIN a.issues[j] /\ a.issues[j].source = "gemini")

\* Whether the hook was called and returned, for each audit_file call of an operation.
Availability(l) ==
    [i \in DOMAIN l.audits |-> l.audits[i].called /\ ~Response(l.audits[i].resp).raises]

\* A scan that returned is followed, with nothing changed in between, by a
\* scan of the same target that returns.
RepeatStep == last.op = "audit" /\ ~last.raised /\ ScanStep /\ last'.target = last.target

\* Both scans give the same Report, and the state holds the same issues for
\* the same paths; the targets' last_scanned is later.
SameOutcome ==
    /\ last'.report = last.report
    /\ DOMAIN stateFile'.files = DOMAIN stateFile.files
    /\ \A p \in DOMAIN stateFile.files : stateFile'.files[p].issues = stateFile.files[p].issues
    /\ \A t \in TargetSet(last') :
         stateFile'.files[t].last_scanned > stateFile.files[t].last_scanned

\* C9 as claimed: a scan repeated with unchanged files, README and hook
\* availability gives the same issues for every file and the same Report.
C9_RescanSameIssues ==
    [][ (RepeatStep /\ Availability(last') = Availability(last)) => SameOutcome ]_vars

\* C9 as amended: the same, when the hook, where it is called, also gives the
\* same response in both scans.
C9_RescanSameIssuesSameResponses ==
    [][ (RepeatStep /\ Resps(last') = Resps(last)) => SameOutcome ]_vars

\* A scan of two files, with the hook called and returning a record, has been
\* repeated with the same responses.
C9_Witness ==
    /\ Returned
    /\ last.repeat
    /\ Len(last.audits) = 2
    /\ \E i \in DOMAIN last.audits :
         /\ last.audits[i].called
         /\ last.audits[i].resp = "one_good"
         /\ Len(last.audits[i].issues) >= 2

---------------------------------------------------------------------------
\* Properties of audit_file.

\* The indices of the keywords that are no substring of the lowercased text.
MissingIdx(text, kws) == {i \in DOMAIN kws : ~contains(kws[i], lower(text))}

MediumIssues(issues) == SelectSeq(issues, LAMBDA x : x.severity = "medium")

\* C10: for a parsable file, audit_file emits no alignment issue when the
\* keyword list is empty or every keyword is a substring of the lowercased
\* source; otherwise it emits exactly one issue of severity medium, with no
\* line, whose missing_keywords_sample is the first min(5, number missing)
\* missing keywords, in the order of the keyword list.
C10_AlignmentIssue ==
    fn_out.done =>
        LET kws == fn_in.keywords
            M == MissingIdx(fn_in.src.text, kws)
            medium == MediumIssues(fn_out.issues)
        IN  /\ kws = <<>> => medium = <<>>
            /\ M = {} => medium = <<>>
            /\ M # {} =>
                 /\ Len(medium) = 1
                 /\ "line" \notin DOMAIN medium[1]
                 /\ medium[1].file = AlignPath
                 /\ LET sample == medium[1].details.missing_keywords_sample
                    IN  /\ Len(sample) = IF Cardinality(M) < 5 THEN Cardinality(M) ELSE 5
                        /\ \A n \in DOMAIN sample : sample[n] = kws[NthOf(M, n)]

\* audit_file has run on a source that lacks six keywords or more, some
\* present keyword among them in the list: the sample has five.
C10_Witness ==
    /\ fn_out.done
    /\ Cardinality(MissingIdx(fn_in.src.text, fn_in.keywords)) >= 6
    /\ Cardinality(MissingIdx(fn_in.src.text, fn_in.keywords)) < Len(fn_in.keywords)
    /\ Len(MediumIssues(fn_out.issues)) = 1
    /\ Len(MediumIssues(fn_out.issues)[1].details.missing_keywords_sample) = 5

---------------------------------------------------------------------------
\* Properties of the query rule.

\* The Call nodes of a tree in the order the visitor meets them.
RECURSIVE AllCalls(_)
AllCalls(calls) ==
    IF calls = <<>> THEN <<>>
    ELSE <<Head(calls)>> \o AllCalls(Head(calls).inner) \o AllCalls(Tail(calls))

\* A call whose resolved name is execute or executemany in any case and whose
\* first positional argument is an f-string.
IsFStringQuery(node) ==
    /\ node.func.kind \in {"Name", "Attribute"}
    /\ lower(node.func.name) \in {N_execute, N_executemany}
    /\ node.args # <<>>
    /\ node.args[1].kind = "JoinedStr"

FStringQueries(src) == SelectSeq(AllCalls(src.calls), IsFStringQuery)

Criticals(issues) == SelectSeq(issues, LAMBDA i : i.severity = "critical")

\* C11: audit_file emits exactly one critical issue for each call to execute or
\* executemany (any case) whose first positional argument is an f-string, and
\* the line of that issue is the line of the call: the critical issues of a
\* result are, in visiting order, one per such call, each on its call's line.
C11_FStringQueryCriticalAtCallLine ==
    fn_out.done =>
        LET qs == FStringQueries(fn_in.src)
            cs == Criticals(fn_out.issues)
        IN  /\ Len(cs) = Len(qs)
            /\ \A i \in DOMAIN qs : i \in DOMAIN cs => cs[i].line = qs[i].lineno

---------------------------------------------------------------------------
\* Properties of the relay's rate limit.

\* The requests of a client that the server received and counted within the
\* window of one hour.
InWindow(c, h) ==
    {req \in BagToSet(reqs) : /\ req.ip = c
                              /\ req.hour = h
                              /\ req.current_count > 0 => req.incr_hour = h}

\* Redis answered every command of these requests.
RedisAvailable(R) ==
    /\ redis_client = "connected"
    /\ \A req \in R : ~req.redis_error

\* How many requests there are of the kinds in R.
RECURSIVE Copies(_)
Copies(R) ==
    IF R = {} THEN 0
    ELSE LET req == CHOOSE x \in R : TRUE
         IN  CopiesIn(req, reqs) + Copies(R \ {req})

\* The requests that passed the rate-limit check.
PassedCheck(R) ==
    {req \in R : req.pc = "analyze" \/ (req.pc = "done" /\ req.status # 429)}

\* C12: with Redis available, whatever the interleaving of the requests of one
\* client within one hour window, no two of them get the same count, at most
\* RATE_LIMIT_PER_HOUR of them pass the rate-limit check and reach the provider
\* call, and every one counted beyond the limit is rejected with status 429 and
\* is not forwarded.
C12_AtMostLimitPass ==
    \A c \in Clients : \A h \in 0..current_hour(MaxWall) :
        LET R == InWindow(c, h)
        IN  RedisAvailable(R) =>
              /\ \A n \in 1..NumRequests :
                    Copies({req \in R : req.current_count = n}) <= 1
              /\ Copies(PassedCheck(R)) <= RATE_LIMIT_PER_HOUR
              /\ Copies({req \in R : req.forwarded}) <= RATE_LIMIT_PER_HOUR
              /\ \A req \in R :
                    req.current_count > RATE_LIMIT_PER_HOUR
                        => /\ req.pc = "done"
                           /\ req.status = 429
                           /\ ~req.forwarded

\* A client made more requests than the limit in one window, Redis answering
\* all of them: one is rejected while the first is still between its INCR and
\* its EXPIRE, and another one is at the provider call.
C12_Witness ==
    \E c \in Clients : \E h \in 0..current_hour(MaxWall) :
        LET R == InWindow(c, h)
        IN  /\ RedisAvailable(R)
            /\ PROXY_KEY
            /\ Copies(R) > RATE_LIMIT_PER_HOUR
            /\ \E req \in R : req.pc = "done" /\ req.status = 429
            /\ \E req \in R : req.pc = "expire"
            /\ \E req \in R : req.pc = "analyze"

---------------------------------------------------------------------------
\* Properties of the initialisation.

\* The step of an init_project call.
InitStep == last'.op = "init" /\ now' = now + 1

\* C13: init_project never modifies a descriptive document that exists (it
\* writes the template when there is none), and it always rewrites the
\* persisted state with an empty `files` mapping and the time of the call:
\* every ScanRecord the state held before the call is absent right after it.
C13_InitKeepsReadmeEmptiesState ==
    [][ InitStep
          => /\ readme' = IF readme = "absent" THEN "template" ELSE readme
             /\ stateFile'.kind = "document"
             /\ stateFile'.generated = now
             /\ DOMAIN stateFile'.files = {}
             /\ \A p \in DOMAIN stateFile.files : p \notin DOMAIN stateFile'.files
             /\ last'.dropped = DOMAIN stateFile.files ]_vars

\* init_project has just returned in a project that has a descriptive document
\* of its own and whose state held ScanRecords written by an earlier scan.
C13_Witness ==
    /\ last.op = "init"
    /\ last.loaded = "document"
    /\ last.dropped # {}
    /\ readme = "goals"
    /\ DOMAIN stateFile.files = {}

===========================================================================
